---- MODULE Spec2Model ----
(***************************************************************************)
(* Mastermind solver: the code space, the feedback engine, the constraint  *)
(* filter and the minimax guess recommender of mastermind.ts, and the      *)
(* solving session of App.tsx that is built from them.                     *)
(***************************************************************************)
EXTENDS Integers, Sequences, FiniteSets, TLC

\* ------------------------------------------------------------------ bounds

\* Colours used by the bounded code space of the small specifications.
MaxPeg == 2
\* Number of codes of the bounded code space (its first codes, in order).
PoolSize == 5
\* Longest history of a bounded session.
MaxSteps == 2
\* Longest remaining list and longest allGuesses list given to the recommender.
MaxRemaining == 3
MaxGuesses == 3

\* --------------------------------------------------------- program constants

\* type Peg = 1 | 2 | 3 | 4 | 5 | 6
NumPegs == 6
\* type Code = [Peg, Peg, Peg, Peg]; the loops and checks over 4 positions.
CodeLen == 4

\* ------------------------------------------------------------------ helpers

Range(s) == {s[i] : i \in 1..Len(s)}

Min(a, b) == IF a < b THEN a ELSE b

Max(a, b) == IF a > b THEN a ELSE b

\* ---------------------------------------------------------------- code space

\* The nested loops of generateAllCodes over the pegs 1..n: every code, in
\* lexicographic order, position 1 varying slowest.
generateAllCodes(n) ==
    [k \in 1..(n * n * n * n) |->
        << (((k - 1) \div (n * n * n)) % n) + 1,
           (((k - 1) \div (n * n)) % n) + 1,
           (((k - 1) \div n) % n) + 1,
           ((k - 1) % n) + 1 >>]

ALL_CODES == SubSeq(generateAllCodes(NumPegs), 1, NumPegs * NumPegs * NumPegs * NumPegs)

\* code.join(""): the string of the four digits, as its UTF-16 code units
\* ("1" is 49).
codeToString(code) == [i \in 1..CodeLen |-> 48 + code[i]]

\* The < of two strings: lexicographic on the code units, a proper prefix
\* being smaller.
RECURSIVE StringLess(_, _)
StringLess(a, b) ==
    IF b = <<>> THEN FALSE
    ELSE IF a = <<>> THEN TRUE
    ELSE IF Head(a) # Head(b) THEN Head(a) < Head(b)
    ELSE StringLess(Tail(a), Tail(b))

firstGuess == <<1, 1, 2, 2>>

makeEmptyGuess == <<1, 1, 1, 1>>

\* ----------------------------------------------------------- feedback engine

\* The positions that are no exact match: the only ones tallied.
Differ(secret, guess) == {i \in 1..CodeLen : secret[i] # guess[i]}

\* secretCounts.get(p) / guessCounts.get(p): how often peg p occurs in code a
\* at the positions at.
CountAt(a, at, p) == Cardinality({i \in at : a[i] = p})

\* The loop over guessCounts.entries(): pegs are the keys of guessCounts.
RECURSIVE SumWhite(_, _, _, _)
SumWhite(secret, guess, at, pegs) ==
    IF pegs = {} THEN 0
    ELSE LET peg == CHOOSE p \in pegs : TRUE
         IN Min(CountAt(secret, at, peg), CountAt(guess, at, peg))
            + SumWhite(secret, guess, at, pegs \ {peg})

\* A plausible slip: the secret's pegs are tallied at every position, exact
\* matches included.
feedbackForTallyAll(secret, guess) ==
    LET at == Differ(secret, guess)
    IN [black |-> CodeLen - Cardinality(at),
        white |-> SumWhite(secret, guess, 1..CodeLen, {guess[i] : i \in at})]

feedbackFor(secret, guess) ==
    LET at == Differ(secret, guess)
    IN [black |-> CodeLen - Cardinality(at),
        white |-> SumWhite(secret, guess, at, {guess[i] : i \in at})]

\* A plausible slip: the check of the sum is left out.
isValidFeedbackNoSum(fb) ==
    IF fb.black < 0 \/ fb.white < 0 THEN FALSE
    ELSE IF fb.black > 4 \/ fb.white > 4 THEN FALSE
    ELSE TRUE

isValidFeedback(fb) ==
    IF fb.black < 0 \/ fb.white < 0 THEN FALSE
    ELSE IF fb.black > 4 \/ fb.white > 4 THEN FALSE
    ELSE IF fb.black + fb.white > 4 THEN FALSE
    ELSE TRUE

\* `${fb.black}${fb.white}`: both counts are single digits.
feedbackKey(fb) == <<48 + fb.black, 48 + fb.white>>

\* --------------------------------------------------------- constraint filter

\* A plausible slip: the white count is compared with the black pins.
ConsistentBlackTwice(secret, step) ==
    LET fb == feedbackFor(secret, step.guess)
    IN fb.black = step.feedback.black /\ fb.white = step.feedback.black

Consistent(secret, step) ==
    LET fb == feedbackFor(secret, step.guess)
    IN fb.black = step.feedback.black /\ fb.white = step.feedback.white

\* A plausible slip: the loop returns after its first step.
filterRemainingFirstOnly(steps, candidates) ==
    IF steps = <<>> THEN candidates
    ELSE SelectSeq(candidates, LAMBDA c : Consistent(c, Head(steps)))

\* A plausible slip: every step filters candidates instead of remaining, so
\* that only the last step counts.
filterRemainingLastOnly(steps, candidates) ==
    IF steps = <<>> THEN candidates
    ELSE SelectSeq(candidates, LAMBDA c : Consistent(c, steps[Len(steps)]))

RECURSIVE filterRemaining(_, _)
filterRemaining(steps, candidates) ==
    IF steps = <<>> THEN candidates
    ELSE filterRemaining(Tail(steps),
                         SelectSeq(candidates, LAMBDA c : Consistent(c, Head(steps))))

\* ---------------------------------------------------------- guess recommender

\* The feedback key of every secret of remaining against guess, in order.
Keys(remaining, guess) ==
    SubSeq([i \in 1..Len(remaining) |-> feedbackKey(feedbackFor(remaining[i], guess))],
           1, Len(remaining))

\* The insertion-ordered Map partitions once the loop over remaining is done:
\* one [key, count] entry per feedback key, in the order of the keys' first
\* occurrences, count being the number of secrets with that key.
Partitions(remaining, guess) ==
    LET keys == Keys(remaining, guess)
        n == Len(keys)
        firsts == {CHOOSE i \in 1..n : keys[i] = k /\ \A j \in 1..(i - 1) : keys[j] # k :
                     k \in Range(keys)}
        order == SelectSeq(SubSeq([i \in 1..n |-> i], 1, n), LAMBDA i : i \in firsts)
    IN [x \in 1..Len(order) |->
          [key |-> keys[order[x]],
           count |-> Cardinality({i \in 1..n : keys[i] = keys[order[x]]})]]

\* The scan of partitions.values() with its early exit: the running maximum,
\* abandoned as soon as it reaches bestScore.
RECURSIVE WorstFrom(_, _, _, _)
WorstFrom(partitions, i, worst, bestScore) ==
    IF i > Len(partitions) THEN worst
    ELSE LET w == Max(worst, partitions[i].count)
         IN IF w >= bestScore THEN w
            ELSE WorstFrom(partitions, i + 1, w, bestScore)

Worst(partitions, bestScore) == WorstFrom(partitions, 1, 0, bestScore)

\* The comparison of a guess's worst with the best so far.
Choose(worst, guess, isInRemaining, best) ==
    IF worst < best.bestScore
    THEN [bestGuess |-> guess, bestScore |-> worst, bestIsRemaining |-> isInRemaining]
    ELSE IF worst = best.bestScore
    THEN IF isInRemaining /\ ~best.bestIsRemaining
         THEN [best EXCEPT !.bestGuess = guess, !.bestIsRemaining = TRUE]
         ELSE IF isInRemaining = best.bestIsRemaining
                 /\ StringLess(codeToString(guess), codeToString(best.bestGuess))
         THEN [best EXCEPT !.bestGuess = guess]
         ELSE best
    ELSE best

\* One iteration of the loop over allGuesses.
Consider(remaining, remainingSet, guess, best) ==
    Choose(Worst(Partitions(remaining, guess), best.bestScore), guess,
           codeToString(guess) \in remainingSet, best)

\* The loop over allGuesses[lo..hi], in order, starting from best (the range
\* is walked by halves, the left half being evaluated in full before the right
\* half is entered, so that a long list needs no deep recursion).
RECURSIVE ScanGuesses(_, _, _, _, _, _)
ScanGuesses(remaining, remainingSet, allGuesses, lo, hi, best) ==
    IF lo > hi THEN best
    ELSE IF lo = hi THEN Consider(remaining, remainingSet, allGuesses[lo], best)
    ELSE LET mid == (lo + hi) \div 2
             left == ScanGuesses(remaining, remainingSet, allGuesses, lo, mid, best)
         IN IF left.bestScore >= 0
            THEN ScanGuesses(remaining, remainingSet, allGuesses, mid + 1, hi, left)
            ELSE left

\* bestScore starts at Infinity: a score no partition of remaining reaches.
recommendNextGuess(remaining, allGuesses) ==
    IF Len(remaining) = 0 THEN <<1, 1, 2, 2>>
    ELSE IF Len(remaining) = 1 THEN remaining[1]
    ELSE ScanGuesses(remaining, {codeToString(c) : c \in Range(remaining)}, allGuesses,
                     1, Len(allGuesses),
                     [bestGuess |-> <<1, 1, 2, 2>>,
                      bestScore |-> Len(remaining) + 1,
                      bestIsRemaining |-> FALSE]).bestGuess

\* ------------------------------------------------------------------- inputs

\* The bounded code space: the first PoolSize codes over the pegs 1..MaxPeg.
SmallCodes == SubSeq(generateAllCodes(MaxPeg), 1, PoolSize)

Reverse(s) == [i \in 1..Len(s) |-> s[Len(s) + 1 - i]]

\* The sequences without repetition of at least lo and at most hi elements of S.
ListsOf(S, lo, hi) ==
    UNION {{q \in [1..n -> S] : \A i, j \in 1..n : i # j => q[i] # q[j]} : n \in lo..hi}

\* Values typed into a pin field, before clampInt.
PinInputs == {-1, 0, 2, 3, 7}

\* ------------------------------------------------------------------- session

VARIABLES steps, currentGuess, blackPins, whitePins,
          secret, candidates, remaining, allGuesses, recommended, score

vars == <<steps, currentGuess, blackPins, whitePins,
          secret, candidates, remaining, allGuesses, recommended, score>>

sessionVars == <<steps, currentGuess, blackPins, whitePins>>

functionVars == <<candidates, remaining, allGuesses, recommended, score>>

\* On integers: Number.isFinite holds and Math.trunc changes nothing.
clampInt(n, min, max) == Max(min, Min(max, n))

\* useState: the empty history, firstGuess(), no pins.
SessionInit ==
    /\ steps = <<>>
    /\ currentGuess = firstGuess
    /\ blackPins = 0
    /\ whitePins = 0

NoFunction ==
    /\ candidates = <<>>
    /\ remaining = <<>>
    /\ allGuesses = <<>>
    /\ recommended = <<>>
    /\ score = <<>>

\* PegSelect onChange inside CodeEditor: position i of the guess becomes v.
SetPeg(i, v) ==
    /\ currentGuess' = [currentGuess EXCEPT ![i] = v]
    /\ UNCHANGED <<steps, blackPins, whitePins>>

SetBlackPins(v) ==
    /\ blackPins' = clampInt(v, 0, 4)
    /\ UNCHANGED <<steps, currentGuess, whitePins>>

SetWhitePins(v) ==
    /\ whitePins' = clampInt(v, 0, 4)
    /\ UNCHANGED <<steps, currentGuess, blackPins>>

\* addStep with b and w in the pin fields, over the code space codes.
AddStepWith(codes, b, w) ==
    LET fb == [black |-> clampInt(b, 0, 4), white |-> clampInt(w, 0, 4)]
        nextSteps == Append(steps, [guess |-> currentGuess, feedback |-> fb])
    IN IF ~isValidFeedback(fb)
       THEN UNCHANGED sessionVars
       ELSE /\ steps' = nextSteps
            /\ blackPins' = 0
            /\ whitePins' = 0
            /\ currentGuess' = recommendNextGuess(filterRemaining(nextSteps, codes), codes)

AddStep(codes) == AddStepWith(codes, blackPins, whitePins)

ResetAll ==
    /\ steps' = <<>>
    /\ currentGuess' = firstGuess
    /\ blackPins' = 0
    /\ whitePins' = 0

\* The session over the bounded code space, the user editing the last peg.
EditGuess ==
    /\ \E v \in 1..MaxPeg : SetPeg(CodeLen, v)
    /\ UNCHANGED <<secret, functionVars>>

EditBlackPins ==
    /\ \E v \in PinInputs : SetBlackPins(v)
    /\ UNCHANGED <<secret, functionVars>>

EditWhitePins ==
    /\ \E v \in PinInputs : SetWhitePins(v)
    /\ UNCHANGED <<secret, functionVars>>

ClickAddStep ==
    /\ Len(steps) < MaxSteps
    /\ AddStep(SmallCodes)
    /\ UNCHANGED <<secret, functionVars>>

ClickReset ==
    /\ ResetAll
    /\ UNCHANGED <<secret, functionVars>>

Init ==
    /\ SessionInit
    /\ secret = <<>>
    /\ NoFunction

Next ==
    \/ EditGuess
    \/ EditBlackPins
    \/ EditWhitePins
    \/ ClickAddStep
    \/ ClickReset

Spec == Init /\ [][Next]_vars

\* ------------------------------------------------- session with a code maker

\* A code maker holds secret and scores every guess with feedbackFor; the
\* user types that score into the pin fields.
HonestInit ==
    /\ SessionInit
    /\ secret \in Range(SmallCodes)
    /\ NoFunction

EditAnyPeg ==
    /\ \E i \in 1..CodeLen, v \in 1..MaxPeg :
         /\ [currentGuess EXCEPT ![i] = v] \in Range(SmallCodes)
         /\ SetPeg(i, v)
    /\ UNCHANGED <<secret, functionVars>>

EnterBlack ==
    /\ SetBlackPins(feedbackFor(secret, currentGuess).black)
    /\ UNCHANGED <<secret, functionVars>>

EnterWhite ==
    /\ SetWhitePins(feedbackFor(secret, currentGuess).white)
    /\ UNCHANGED <<secret, functionVars>>

AddScoredStep ==
    /\ Len(steps) < MaxSteps
    /\ blackPins = feedbackFor(secret, currentGuess).black
    /\ whitePins = feedbackFor(secret, currentGuess).white
    /\ AddStep(SmallCodes)
    /\ UNCHANGED <<secret, functionVars>>

HonestNext ==
    \/ EditAnyPeg
    \/ EnterBlack
    \/ EnterWhite
    \/ AddScoredStep
    \/ ClickReset

SpecHonest == HonestInit /\ [][HonestNext]_vars

\* ------------------------------------------- the solver against a code maker

\* The session over the full code space, from its initial state (currentGuess
\* is firstGuess()). One round: the user plays the current guess, which is
\* the recommended one, the code maker scores it for a secret that is still
\* possible, and addStep runs with that score in the pin fields.
PlayRound ==
    /\ Len(filterRemaining(steps, ALL_CODES)) > 1
    /\ \E fb \in {feedbackFor(s, currentGuess) : s \in Range(filterRemaining(steps, ALL_CODES))} :
         AddStepWith(ALL_CODES, fb.black, fb.white)
    /\ UNCHANGED <<secret, functionVars>>

SpecConv == Init /\ [][PlayRound]_vars

\* ----------------------------------------------------------- filterRemaining

Universes == {SmallCodes, Reverse(SmallCodes), SubSeq(SmallCodes, 2, PoolSize)}

\* The feedback some code of the bounded space gives to g, and one that none
\* gives.
FeedbackInputs(g) ==
    {feedbackFor(c, g) : c \in Range(SmallCodes)} \cup {[black |-> 0, white |-> 4]}

FilterInit ==
    /\ SessionInit
    /\ secret = <<>>
    /\ candidates \in Universes
    /\ remaining = filterRemaining(<<>>, candidates)
    /\ allGuesses = <<>>
    /\ recommended = <<>>
    /\ score = <<>>

\* A step is appended to the history and the candidates are filtered again.
Observe ==
    /\ Len(steps) < MaxSteps
    /\ \E g \in Range(SmallCodes) : \E fb \in FeedbackInputs(g) :
         /\ steps' = Append(steps, [guess |-> g, feedback |-> fb])
         /\ remaining' = filterRemaining(steps', candidates)
    /\ UNCHANGED <<currentGuess, blackPins, whitePins, secret, candidates,
                   allGuesses, recommended, score>>

SpecFilter == FilterInit /\ [][Observe]_vars

\* -------------------------------------------------------- recommendNextGuess

RecInit ==
    /\ SessionInit
    /\ secret = <<>>
    /\ candidates = <<>>
    /\ remaining \in ListsOf(Range(SmallCodes), 0, MaxRemaining)
    /\ allGuesses \in ListsOf(Range(SmallCodes), 1, MaxGuesses)
    /\ recommended = <<>>
    /\ score = <<>>

Recommend ==
    /\ recommended = <<>>
    /\ recommended' = recommendNextGuess(remaining, allGuesses)
    /\ UNCHANGED <<sessionVars, secret, candidates, remaining, allGuesses, score>>

SpecRec == RecInit /\ [][Recommend]_vars

\* ---------------------------------------------------------------- feedbackFor

ScoreInit ==
    /\ steps = <<>>
    /\ currentGuess \in Range(generateAllCodes(MaxPeg))
    /\ blackPins = 0
    /\ whitePins = 0
    /\ secret \in Range(ALL_CODES)
    /\ candidates = <<>>
    /\ remaining = <<>>
    /\ allGuesses = <<>>
    /\ recommended = <<>>
    /\ score = <<>>

\* The code maker scores the guess against the secret.
Score ==
    /\ score = <<>>
    /\ score' = <<feedbackFor(secret, currentGuess)>>
    /\ UNCHANGED <<sessionVars, secret, candidates, remaining, allGuesses, recommended>>

SpecScore == ScoreInit /\ [][Score]_vars

\* ================================================================ properties

\* The size of the largest group when remaining is partitioned by the
\* feedback of its codes against guess.
GroupSize(rem, guess, fb) ==
    Cardinality({c \in Range(rem) : feedbackFor(c, guess) = fb})

WorstCase(rem, guess) ==
    LET sizes == {GroupSize(rem, guess, feedbackFor(c, guess)) : c \in Range(rem)}
    IN CHOOSE m \in sizes : \A x \in sizes : x <= m

InRemaining(guess) == guess \in Range(remaining)

Recommended == recommended # <<>> /\ Len(remaining) >= 2

\* C1: for a remaining list of at least 2 codes, the recommended guess is one
\* of allGuesses and its worst case (the largest group it splits remaining
\* into) is the smallest worst case of all the guesses.
RecommendsMinimax ==
    Recommended =>
        /\ recommended \in Range(allGuesses)
        /\ \A g \in Range(allGuesses) :
             WorstCase(remaining, recommended) <= WorstCase(remaining, g)

\* C2: among the guesses whose worst case equals that of the recommended
\* guess, the recommended one is a member of remaining whenever any of them
\* is, and among those equal on membership it has the smallest string.
TieBreakOrder ==
    Recommended =>
        \A g \in Range(allGuesses) :
            WorstCase(remaining, g) = WorstCase(remaining, recommended) =>
                /\ InRemaining(g) => InRemaining(recommended)
                /\ InRemaining(g) = InRemaining(recommended) =>
                       ~StringLess(codeToString(g), codeToString(recommended))

\* The recommender with the early exit removed: the worst of a guess is the
\* full maximum of its partition sizes.
RECURSIVE ScanWithoutExit(_, _, _, _, _)
ScanWithoutExit(rem, remSet, guesses, i, best) ==
    IF i > Len(guesses) THEN best
    ELSE ScanWithoutExit(rem, remSet, guesses, i + 1,
             Choose(Worst(Partitions(rem, guesses[i]), Len(rem) + 1), guesses[i],
                    codeToString(guesses[i]) \in remSet, best))

recommendWithoutExit(rem, guesses) ==
    IF Len(rem) = 0 THEN <<1, 1, 2, 2>>
    ELSE IF Len(rem) = 1 THEN rem[1]
    ELSE ScanWithoutExit(rem, {codeToString(c) : c \in Range(rem)}, guesses, 1,
                         [bestGuess |-> <<1, 1, 2, 2>>,
                          bestScore |-> Len(rem) + 1,
                          bestIsRemaining |-> FALSE]).bestGuess

\* C8: the early exit never alters the guess that is selected: the recommender
\* returns what the same algorithm without the early exit returns.
EarlyExitHarmless ==
    recommended # <<>> => recommended = recommendWithoutExit(remaining, allGuesses)

Arrangements(s) == ListsOf(Range(s), Len(s), Len(s))

\* C10: the recommended guess depends on remaining and allGuesses as sets
\* only: every other order of either list gives the same guess.
OrderIndependent ==
    Recommended =>
        \A r \in Arrangements(remaining), g \in Arrangements(allGuesses) :
            recommendNextGuess(r, g) = recommended

\* The codes of universe that agree with every step of history, each feedback
\* compared on both counts.
AgreesWithAll(c, history) ==
    \A i \in 1..Len(history) :
        /\ feedbackFor(c, history[i].guess).black = history[i].feedback.black
        /\ feedbackFor(c, history[i].guess).white = history[i].feedback.white

Permuted(history, p) == SubSeq([i \in 1..Len(history) |-> history[p[i]]], 1, Len(history))

\* C3: filterRemaining returns exactly the codes of the universe that agree
\* with every step of the history, whatever the order of the steps, and the
\* universe itself for the empty history.
FilterExact ==
    /\ remaining = SelectSeq(candidates, LAMBDA c : AgreesWithAll(c, steps))
    /\ \A p \in Permutations(1..Len(steps)) :
         Range(filterRemaining(Permuted(steps, p), candidates)) = Range(remaining)
    /\ steps = <<>> => remaining = candidates

FilterExactWitness ==
    /\ Len(steps) >= 2
    /\ steps[1] # steps[2]
    /\ Len(remaining) > 0
    /\ Len(remaining) < Len(filterRemaining(SubSeq(steps, 1, 1), candidates))
    /\ Len(remaining) < Len(filterRemaining(SubSeq(steps, 2, 2), candidates))

\* C4: appending a step, whatever its guess and feedback, never adds a code
\* to the candidate set; once empty it stays empty.
NeverGrows == [][Range(remaining') \subseteq Range(remaining)]_vars

NeverGrowsWitness ==
    /\ Len(steps) >= 2
    /\ Len(remaining) > 0
    /\ Len(remaining) < Len(filterRemaining(SubSeq(steps, 1, 1), candidates))
    /\ Len(filterRemaining(SubSeq(steps, 1, 1), candidates)) < Len(candidates)

\* C5: while every step carries the feedback of the secret against its guess,
\* the secret stays in the candidate set.
SecretSurvives == secret \in Range(filterRemaining(steps, SmallCodes))

SecretSurvivesWitness ==
    /\ Len(steps) >= 2
    /\ steps[1].guess # secret
    /\ filterRemaining(steps, SmallCodes) = <<secret>>

\* C6: against every secret the solver's candidate set is down to one code
\* after at most 5 rounds.
ConvergesInFiveRounds ==
    Len(steps) >= 5 => Len(filterRemaining(steps, ALL_CODES)) <= 1

\* C7: scoring is symmetric: the score of the guess against the secret has the
\* black and the white of the score of the secret against the guess.
ScoreSymmetric ==
    score # <<>> =>
        /\ score[1].black = feedbackFor(currentGuess, secret).black
        /\ score[1].white = feedbackFor(currentGuess, secret).white

ScoreSymmetricWitness ==
    /\ score # <<>>
    /\ score[1].black = 1
    /\ score[1].white = 2

\* A pair of pins as the claim states validity: both within 0..4, at most 4
\* in all.
ValidPins(b, w) == 0 <= b /\ b <= 4 /\ 0 <= w /\ w <= 4 /\ b + w <= 4

\* C9: every step of the history carries validated feedback; addStep changes
\* nothing when the pins are invalid and otherwise appends exactly the step
\* (currentGuess, pins).
OnlyValidatedSteps ==
    /\ [](\A i \in 1..Len(steps) : ValidPins(steps[i].feedback.black, steps[i].feedback.white))
    /\ [][ClickAddStep =>
            IF ValidPins(blackPins, whitePins)
            THEN steps' = Append(steps, [guess |-> currentGuess,
                                         feedback |-> [black |-> blackPins,
                                                       white |-> whitePins]])
            ELSE UNCHANGED sessionVars]_vars

OnlyValidatedStepsWitness ==
    /\ Len(steps) >= 2
    /\ steps[1].feedback # steps[2].feedback
    /\ ~ValidPins(blackPins, whitePins)

====
